---- MODULE Spec2Model ----
(***************************************************************************)
(* Model of the session controller of NetworkTester                        *)
(* (src/js/network-tester.js): startTest, createTestThread, downloadFile,  *)
(* readStream, reconnectThread, checkAllThreadsCompleted,                  *)
(* startProgressUpdate and stopTest, run by the browser's event loop, and  *)
(* of the wake-lock manager it uses.                                       *)
(*                                                                         *)
(* Event loop.  Application code runs to completion.  A task (a click, a   *)
(* timer, a network event, the wake-lock request settling) is followed by  *)
(* a microtask checkpoint, so the continuation of the `await` that the     *)
(* task settles runs in the same step as the task.  controller.abort()     *)
(* rejects the pending fetch() or reader.read() of the aborted worker      *)
(* synchronously; the rejection handlers are microtasks of the checkpoint  *)
(* of the task that called stopTest, so no task runs before them           *)
(* (NoMicrotask).                                                          *)
(*                                                                         *)
(* Bytes are counted in units of 2^20 bytes (1 MB), so that a target of a  *)
(* few MB is reached after a few chunks.                                   *)
(*                                                                         *)
(* The specifications share the variables.  Spec is the controller with    *)
(* its workers.  SpecCalls is the same system in which the calls that      *)
(* return early (startTest while running or with invalid inputs, stopTest  *)
(* while idle) are recorded in `last`.  SpecServed is Spec with the        *)
(* workers served and the callbacks run fairly.  SpecMeter is the progress *)
(* meter: the clock, updateProgress, updateProgressUI and stopTest's final *)
(* update, with the workers reduced to the chunks they deliver;            *)
(* SpecSteady is the meter in one session at a constant rate.  SpecText is *)
(* the traffic text and the workers' URLs.  SpecLock is the wake-lock      *)
(* manager (src/js/screen-wake-lock.js).                                   *)
(***************************************************************************)
EXTENDS Integers, Sequences, FiniteSets, TLC

\* Bounds of the model.
MaxObj == 2
MaxThreads == 2
MaxLimit == 2
MaxChunk == 2

\* Bounds of the meter's specification: the clock is read at multiples of
\* updateInterval up to MaxNow of them, a session has at most MaxTicks ticks
\* and at most MaxSessions sessions are started.
MaxNow == 2
MaxTicks == 11
MaxSessions == 2

\* Bounds of the wake-lock manager's specification: at most MaxRequests
\* navigator.wakeLock.request() calls are pending at a time and at most
\* MaxGrants of them are ever granted.
MaxRequests == 4
MaxGrants == 5

\* Bound of the texts' specification: the byte counts displayed lie within
\* MaxNear of the values at which the unit or the last digit changes.
MaxNear == 1

\* threadCount > 16 is rejected by validateTestParams.
MaxThreadCount == 16

\* this.speedSmoothingWindow, this.updateInterval (ms), and the ms of a second.
speedSmoothingWindow == 10
updateInterval == 100
MsPerSecond == 1000

Handles == 1..MaxObj
Chunks == 1..MaxChunk
TimerIds == 1..(MaxObj + 1)

\* Texts (the values of the form's inputs) are sequences of characters.
Digits == <<"0", "1", "2", "3", "4", "5", "6", "7", "8", "9">>
DigitVal(c) == (CHOOSE i \in 1..Len(Digits) : Digits[i] = c) - 1
IsDigit(c) == \E i \in 1..Len(Digits) : Digits[i] = c
Text(n) == IF n < Len(Digits) THEN <<Digits[n + 1]>>
           ELSE <<Digits[(n \div Len(Digits)) + 1], Digits[(n % Len(Digits)) + 1]>>

Http == <<"h", "t", "t", "p", ":", "/", "/">>
Https == <<"h", "t", "t", "p", "s", ":", "/", "/">>

\* Values of the custom URL input.
UrlTexts == {<<>>, <<" ">>, Http, Http \o <<"a">>, Http \o <<"a", "b">>, <<" ">> \o Https \o <<"a", "b">>,
             Http \o <<"?", "b">>, Http \o <<"a", "b", " ", "c">>, Http \o <<"a", " ", "b">>,
             Http \o <<"a", "b", "?", "c">>,
             <<"f", "t", "p", ":", "/", "/", "a", "b">>}
\* Values of the thread count input and of the traffic limit input.
BadNumberTexts == {<<>>, <<"x">>, <<"0">>, <<"-", "1">>}
ThreadTexts == {Text(n) : n \in 1..MaxThreads} \cup BadNumberTexts
                   \cup {Text(MaxThreadCount + 1), <<" ", "1", "x">>}
LimitTexts == {Text(MaxLimit)} \cup BadNumberTexts

\* The form as validateTestParams reads it.
FormOf(node, url, n, l) ==
    [nodeId |-> node, customUrl |-> url, threadCount |-> n, trafficLimit |-> l, trafficUnit |-> "MB"]

\* Every combination of the values above.
Forms == {FormOf(node, u, n, l) : node \in {"", "cn1", "us1", "custom"}, u \in UrlTexts,
                                  n \in ThreadTexts, l \in LimitTexts}

\* The forms startTest is called with: a preset node with each thread count,
\* a custom node, and forms with one input that validateTestParams rejects
\* (a thread count above the maximum, a limit that is no number, a custom URL
\* without a path).
StartInputs ==
    {FormOf("cn1", <<>>, Text(n), Text(MaxLimit)) : n \in 1..MaxThreads}
    \cup {FormOf("cn1", <<>>, Text(MaxThreadCount + 1), Text(MaxLimit))}
    \cup {FormOf("cn1", <<>>, Text(1), <<"x">>)}
    \cup {FormOf("custom", u, Text(1), Text(MaxLimit)) : u \in {Http \o <<"a", "b">>, Http \o <<"a">>}}

VARIABLES
    isTesting,            \* this.isTesting
    totalDownloaded,      \* this.totalDownloaded
    targetTrafficBytes,   \* this.targetTrafficBytes
    activeThreads,        \* this.activeThreads: sequence of thread objects (handles)
    threads,              \* the TestThread objects created so far, by handle
    updateTimer,          \* this.updateTimer (0 is null)
    tickTimers,           \* pending setTimeout(update, updateInterval) timers
    startPending,         \* startTest calls suspended at `await screenWakeLock.acquire()`
    session,              \* history: number of sessions started so far
    sessThreads,          \* history: threadCount of the latest session
    sessWarn,             \* history: all-threads-interrupted warnings logged in the latest session
    sessSummary,          \* history: final summary lines logged in the latest session
    audit,                \* history switch: calls that return early are recorded in `last`
    calm,                 \* history: the last call that had to return early changed nothing
    last,                 \* history: the operation that took the last step
    now,                  \* Date.now(), in ms
    startTime,            \* this.startTime
    lastUpdateTime,       \* this.lastUpdateTime
    lastDownloaded,       \* this.lastDownloaded
    speedHistory,         \* this.speedHistory
    progressShown,        \* the progress updateProgressUI wrote last
    speedShown,           \* the speed updateProgressUI was called with last
    rates,                \* history: every currentSpeed of the latest session, in order
    uiUpdates,            \* history: updateProgressUI calls of the latest session
    stoppedBy,            \* history: what stopped the latest session
    wakeLock,             \* screenWakeLock.wakeLock: TRUE when it refers to a sentinel
    isActive,             \* screenWakeLock.isActive
    retryCount,           \* screenWakeLock.retryCount
    heartbeatTimer,       \* screenWakeLock.heartbeatTimer: TRUE when the interval is set
    retryTimers,          \* pending setTimeout callbacks of handleWakeLockRelease
    requests,             \* pending navigator.wakeLock.request() calls, by their caller
    orphans,              \* sentinels granted, not released and no longer in this.wakeLock
    attempts,             \* history: automatic requests since the last grant
    retryArmed,           \* history: retry timers set since the last grant
    gaveUp,               \* history: 'failed' notifications since the last grant
    grants,               \* history: sentinels granted so far
    quiet,                \* history: release()/deactivate() completed with no request pending and
                          \* no unreferenced sentinel, and no acquire()/activate() was called since
    trafficBytes,         \* the byte count updateProgressUI displays
    trafficShown,         \* the text of trafficUsedElement: hundredths and unit
    thread,               \* one TestThread object: its id and its url
    urlBase,              \* history: the base URL that worker was first created with
    reconnectBase,        \* the baseUrl reconnectThread derived last
    steady                \* history: the constant-rate scenario and its position

vars == <<isTesting, totalDownloaded, targetTrafficBytes, activeThreads, threads,
          updateTimer, tickTimers, startPending, session, sessThreads, sessWarn,
          sessSummary, audit, calm, last, now, startTime, lastUpdateTime, lastDownloaded,
          speedHistory, progressShown, speedShown, rates, uiUpdates, stoppedBy,
          wakeLock, isActive, retryCount, heartbeatTimer, retryTimers, requests, orphans,
          attempts, retryArmed, gaveUp, grants, quiet,
          trafficBytes, trafficShown, thread, urlBase, reconnectBase, steady>>

\* The variables of the meter: the clock, what updateProgress and
\* updateProgressUI read and write, and the meter's history.
meterVars == <<now, startTime, lastUpdateTime, lastDownloaded, speedHistory, progressShown,
               speedShown, rates, uiUpdates, stoppedBy>>

\* The variables of the workers and of the tick timers.
workerVars == <<activeThreads, threads, updateTimer, tickTimers, startPending, sessThreads,
                sessWarn, audit, calm>>

\* The variables of the session controller.
sessionVars == <<isTesting, totalDownloaded, targetTrafficBytes, session, sessSummary>>

\* The variables of the wake-lock manager (ScreenWakeLock).
lockVars == <<wakeLock, isActive, retryCount, heartbeatTimer, retryTimers, requests, orphans,
              attempts, retryArmed, gaveUp, grants, quiet>>

\* The variables of the traffic display and of a worker's URL.
textVars == <<trafficBytes, trafficShown, thread, urlBase, reconnectBase>>

\* What the controller's and the meter's operations leave alone.
asideVars == <<lockVars, textVars, steady>>

\* The rational number n / d (d = 0: the result of a division by zero).
Rat(n, d) == [num |-> n, den |-> d]
Leq(a, b) == a.num * b.den <= b.num * a.den

\* What a call that returns early must leave as it is.
Frame == <<isTesting, totalDownloaded, targetTrafficBytes, activeThreads, threads,
           updateTimer, tickTimers, startPending, session, sessThreads, sessWarn,
           sessSummary>>

\* unitMultipliers, in units of 2^20 bytes.
unitMultipliers == [MB |-> 1, GB |-> 1024, TB |-> 1024 * 1024]

NoThread == [id |-> 0, sess |-> 0, pc |-> "none", isActive |-> FALSE, aborted |-> FALSE,
             downloaded |-> 0, errLogged |-> 0, timer |-> "none", failedRunning |-> FALSE]

\* The TestThread object of createTestThread.  pc is the place of its
\* downloadFile call: "fetching" (fetch pending), "reading" (read pending),
\* "fetchAborted" and "readAborted" (the pending call rejected by abort, its
\* handler not yet run), "ended" (the stream ended), "returned" (readStream
\* returned without a stream end), "failed" and "done" (the catch handler ran
\* for an error, for an AbortError).  History fields: sess (the session whose
\* startTest created it), errLogged (its error lines in the log), timer (its
\* reconnect timer: "armed" while the session runs on, "stale" once stopTest
\* ran, "idle" when set while no session runs, "fired"), failedRunning.
TestThread(threadId, s) ==
    [id |-> threadId, sess |-> s, pc |-> "fetching", isActive |-> TRUE, aborted |-> FALSE,
     downloaded |-> 0, errLogged |-> 0, timer |-> "none", failedRunning |-> FALSE]

Range(seq) == {seq[i] : i \in 1..Len(seq)}

Allocated(ths) == Cardinality({h \in Handles : ths[h].pc # "none"})

\* Thread objects still to be created by suspended startTest calls.
RECURSIVE Reserved(_)
Reserved(S) ==
    IF S = {} THEN 0
    ELSE LET p == CHOOSE q \in S : TRUE IN p.threadCount + Reserved(S \ {p})

\* The model creates at most MaxObj thread objects: a session is started only
\* if its threads can be created, and a reconnect timer fires only if the
\* thread it creates can be.
Room(n) == Allocated(threads) + n <= MaxObj

\* No rejection handler of an aborted fetch() or read() is waiting in the
\* microtask queue.
NoMicrotask == \A h \in Handles : threads[h].pc \notin {"fetchAborted", "readAborted"}

\* The callers of acquireWakeLock: acquire() and activate(), the retry timer,
\* the heartbeat, and the visibilitychange, focus and online handlers.
\* Who calls acquireWakeLock: acquire()/activate(), or the manager itself (the
\* retry timer, the heartbeat, the visibilitychange/focus/online handlers).
Callers == {"call", "auto"}
NoRequests == [c \in Callers |-> 0]

\* A byte count: mb * 2^20 + rem, with rem < 2^20.
Bytes(mb, rem) == [mb |-> mb, rem |-> rem]

\* No constant-rate scenario is being run.
NoScenario == [phase |-> "off", perTick |-> 0, every |-> 0]

\* The state the constructors leave.
Constructed ==
    /\ isTesting = FALSE
    /\ totalDownloaded = 0
    /\ targetTrafficBytes = 0
    /\ activeThreads = <<>>
    /\ threads = [h \in Handles |-> NoThread]
    /\ updateTimer = 0
    /\ tickTimers = {}
    /\ startPending = {}
    /\ session = 0
    /\ sessThreads = 0
    /\ sessWarn = 0
    /\ sessSummary = 0
    /\ calm = TRUE
    /\ last = "init"
    /\ now = 0
    /\ startTime = 0
    /\ lastUpdateTime = 0
    /\ lastDownloaded = 0
    /\ speedHistory = <<>>
    /\ progressShown = Rat(0, 1)
    /\ speedShown = Rat(0, 1)
    /\ rates = <<>>
    /\ uiUpdates = 0
    /\ stoppedBy = "none"
    /\ wakeLock = FALSE
    /\ isActive = FALSE
    /\ retryCount = 0
    /\ heartbeatTimer = FALSE
    /\ retryTimers = 0
    /\ requests = NoRequests
    /\ orphans = 0
    /\ attempts = 0
    /\ retryArmed = 0
    /\ gaveUp = 0
    /\ grants = 0
    /\ quiet = FALSE
    /\ trafficBytes = Bytes(0, 0)
    /\ trafficShown = [hundredths |-> 0, unit |-> "MB"]
    /\ thread = [id |-> 0, url |-> <<>>]
    /\ urlBase = <<>>
    /\ reconnectBase = <<>>
    /\ steady = NoScenario

(***************************************************************************)
(* Helpers translated from the code                                        *)
(***************************************************************************)

\* testNodes: the preset nodes, their URLs shortened to a host and, for the
\* Cloudflare node, a query.
testNodes == [cn1 |-> Https \o <<"a", "b">>,
              cn2 |-> Https \o <<"c", "d">>,
              us1 |-> Https \o <<"e", "f", "?", "g">>,
              custom |-> <<>>]

\* String.prototype.trim
RECURSIVE TrimStart(_)
TrimStart(s) == IF s # <<>> /\ Head(s) = " " THEN TrimStart(Tail(s)) ELSE s
RECURSIVE TrimEnd(_)
TrimEnd(s) == IF s # <<>> /\ s[Len(s)] = " " THEN TrimEnd(SubSeq(s, 1, Len(s) - 1)) ELSE s
Trim(s) == TrimEnd(TrimStart(s))

\* A JavaScript number that is NaN, or the integer v.
NaN == [nan |-> TRUE, val |-> 0]
Num(v) == [nan |-> FALSE, val |-> v]
IsNaN(x) == x.nan

RECURSIVE DigitsValue(_, _)
DigitsValue(s, acc) ==
    IF s # <<>> /\ IsDigit(Head(s))
    THEN DigitsValue(Tail(s), acc * Len(Digits) + DigitVal(Head(s)))
    ELSE acc

\* parseInt(text): leading white space, a sign, then the longest run of
\* digits; NaN when there is no digit.
ParseInt(text) ==
    LET s == TrimStart(text)
        signed == s # <<>> /\ Head(s) \in {"-", "+"}
        body == IF signed THEN Tail(s) ELSE s
        v == DigitsValue(body, 0)
    IN  IF body = <<>> \/ ~IsDigit(Head(body)) THEN NaN
        ELSE Num(IF signed /\ Head(s) = "-" THEN 0 - v ELSE v)

\* parseFloat(text).  The texts of the model hold neither "." nor an
\* exponent, and on such texts parseFloat reads the number parseInt reads.
ParseFloat(text) == ParseInt(text)

\* urlPattern.test(u) for /^https?:\/\/[^\s/$.?#].[^\s]*$/
UrlPattern(u) ==
    LET p == IF Len(u) >= Len(Https) /\ SubSeq(u, 1, Len(Https)) = Https THEN Len(Https)
             ELSE IF Len(u) >= Len(Http) /\ SubSeq(u, 1, Len(Http)) = Http THEN Len(Http)
             ELSE 0
    IN  /\ p > 0
        /\ Len(u) >= p + 2
        /\ u[p + 1] \notin {" ", "/", "$", ".", "?", "#"}
        /\ \A i \in (p + 3)..Len(u) : u[i] # " "

\* validateTestParams returns null.
Null == [valid |-> FALSE, testUrl |-> <<>>, threadCount |-> 0, trafficLimit |-> 0,
         trafficUnit |-> "MB"]

\* validateTestParams, reading the form.
ValidateTestParams(form) ==
    LET testUrl == IF form.nodeId = "custom" THEN Trim(form.customUrl)
                   ELSE IF form.nodeId \in DOMAIN testNodes THEN testNodes[form.nodeId]
                   ELSE <<>>
        threadCount == ParseInt(form.threadCount)
        trafficLimit == ParseFloat(form.trafficLimit)
    IN  IF form.nodeId = "" THEN Null
        ELSE IF form.nodeId = "custom" /\ testUrl = <<>> THEN Null
        ELSE IF form.nodeId = "custom" /\ ~UrlPattern(testUrl) THEN Null
        ELSE IF IsNaN(threadCount) \/ threadCount.val < 1 \/ threadCount.val > MaxThreadCount
             THEN Null
        ELSE IF IsNaN(trafficLimit) \/ trafficLimit.val <= 0 THEN Null
        ELSE [valid |-> TRUE, testUrl |-> testUrl, threadCount |-> threadCount.val,
              trafficLimit |-> trafficLimit.val, trafficUnit |-> form.trafficUnit]

\* Mutant of AlreadyTesting: startTest does not test isTesting.
StartsAnyway(testing) == FALSE

\* startTest: if (this.isTesting) return;
AlreadyTesting(testing) == testing

\* Mutant of NoParams: startTest goes on without validated parameters.
NoParamsIgnored(params) == FALSE

\* startTest: if (!params) return;
NoParams(params) == params = Null

\* Mutant of NotTesting: stopTest does not test isTesting.
StopsAnyway(testing) == FALSE

\* stopTest: if (!this.isTesting) return;
NotTesting(testing) == ~testing

\* createTestThread: the new object is pushed on activeThreads and its
\* download starts.  w is [ths, act]: the thread objects and activeThreads.
CreateTestThread(w, threadId, s) ==
    LET h == Allocated(w.ths) + 1
    IN  [ths |-> [w.ths EXCEPT ![h] = TestThread(threadId, s)],
         act |-> Append(w.act, h)]

\* startTest: for (let i = 0; i < threadCount; i++) createTestThread(i, testUrl)
RECURSIVE SpawnLoop(_, _, _, _)
SpawnLoop(w, i, threadCount, s) ==
    IF i < threadCount
    THEN SpawnLoop(CreateTestThread(w, i, s), i + 1, threadCount, s)
    ELSE w

\* Mutant of FilterId: the old entry is not removed.
FilterIdKeepsAll(act, threadId, ths) == act

\* reconnectThread: drop the entries with the thread's id, create a new thread.
FilterId(act, threadId, ths) ==
    SelectSeq(act, LAMBDA x : ths[x].id # threadId)

ReconnectThread(w, h) ==
    CreateTestThread([ths |-> w.ths, act |-> FilterId(w.act, w.ths[h].id, w.ths)],
                     w.ths[h].id, w.ths[h].sess)

\* readStream: while (this.isTesting && thread.isActive)
LoopCond(testing, active) == testing /\ active

\* Mutant of Accumulate: the chunk is counted twice.
AccumulateTwice(total, chunkSize) == total + chunkSize + chunkSize

\* readStream: this.totalDownloaded += chunkSize
Accumulate(total, chunkSize) == total + chunkSize

\* Mutant of BudgetReached: the target counts as reached only once exceeded.
BudgetReachedGt(total, target) == total > target

\* readStream: if (this.totalDownloaded >= this.targetTrafficBytes)
BudgetReached(total, target) == total >= target

\* Mutant of LogsError: the catch handler logs every error.
LogsEveryError(errName) == TRUE

\* createTestThread's catch: if (error.name !== 'AbortError') this.log(...)
LogsError(errName) == errName # "AbortError"

\* readStream's catch: if (error.name !== 'AbortError') throw error
Rethrows(errName) == errName # "AbortError"

\* Mutants of AllInactive: the negation is lost; some() instead of every().
AllActive(ths, act) == \A i \in 1..Len(act) : ths[act[i]].isActive
SomeInactive(ths, act) == \E i \in 1..Len(act) : ~ths[act[i]].isActive

\* checkAllThreadsCompleted: this.activeThreads.every(thread => !thread.isActive)
AllInactive(ths, act) == \A i \in 1..Len(act) : ~ths[act[i]].isActive

\* controller.abort() and thread.isActive = false, in stopTest's forEach.
\* The pending fetch() or read() of the thread is rejected with an AbortError.
AbortThread(th) ==
    [th EXCEPT !.aborted = TRUE,
               !.isActive = FALSE,
               !.pc = IF @ = "fetching" THEN "fetchAborted"
                      ELSE IF @ = "reading" THEN "readAborted" ELSE @]

\* setTimeout returns an id no pending timer has.
FreshTimer(pending) == CHOOSE k \in TimerIds \ pending :
                          \A j \in TimerIds \ pending : k <= j

\* stopTest, called with the thread objects as its caller left them.
\* A reconnect timer that is pending when the session stops is marked stale
\* (history).
StopTest(ths) ==
    IF NotTesting(isTesting)
    THEN /\ threads' = ths
         /\ UNCHANGED <<isTesting, updateTimer, tickTimers, activeThreads, sessSummary>>
    ELSE /\ isTesting' = FALSE
         /\ IF updateTimer # 0
            THEN /\ tickTimers' = tickTimers \ {updateTimer}
                 /\ updateTimer' = 0
            ELSE UNCHANGED <<updateTimer, tickTimers>>
         /\ threads' = [h \in Handles |->
                LET th == IF h \in Range(activeThreads) THEN AbortThread(ths[h]) ELSE ths[h]
                IN  [th EXCEPT !.timer = IF @ = "armed" THEN "stale" ELSE @]]
         /\ activeThreads' = <<>>
         /\ sessSummary' = sessSummary + 1

\* checkAllThreadsCompleted
CheckAllThreadsCompleted(ths) ==
    IF AllInactive(ths, activeThreads) /\ isTesting
    THEN /\ sessWarn' = sessWarn + 1
         /\ StopTest(ths)
    ELSE /\ sessWarn' = sessWarn
         /\ threads' = ths
         /\ UNCHANGED <<isTesting, updateTimer, tickTimers, activeThreads, sessSummary>>

\* The catch handler createTestThread attaches to downloadFile(...).
CatchHandler(h, errName) ==
    /\ CheckAllThreadsCompleted(
           [threads EXCEPT ![h].errLogged = IF LogsError(errName) THEN @ + 1 ELSE @,
                           ![h].isActive = FALSE,
                           ![h].failedRunning =
                               errName # "AbortError" /\ isTesting /\ threads[h].sess = session,
                           ![h].pc = IF errName = "AbortError" THEN "done" ELSE "failed"])
    /\ UNCHANGED <<totalDownloaded, targetTrafficBytes, startPending, session, sessThreads,
                   audit, calm>>

(***************************************************************************)
(* Operations                                                              *)
(***************************************************************************)

\* validateTestParams on each form of the model.
Validated == [form \in StartInputs |-> ValidateTestParams(form)]

\* The value `last` takes for an operation: its name, or, where the calls
\* that return early are recorded, "step" for every operation but those calls.
Op(name) == IF audit THEN "step" ELSE name

\* The situation startTest is called in (history).
StartTag(params) ==
    IF isTesting THEN "startWhileRunning"
    ELSE IF params = Null THEN "startRejected" ELSE Op("startTest")

\* startTest up to `await this.screenWakeLock.acquire()`.
StartTest(form) ==
    /\ NoMicrotask
    /\ LET params == Validated[form]
       IN  IF AlreadyTesting(isTesting) \/ NoParams(params)
           THEN /\ last' = IF audit THEN StartTag(params) ELSE last
                /\ UNCHANGED <<isTesting, totalDownloaded, targetTrafficBytes, activeThreads,
                               threads, updateTimer, tickTimers, startPending, session,
                               sessThreads, sessWarn, sessSummary, audit>>
           ELSE /\ Room(Reserved(startPending) + params.threadCount)
                /\ targetTrafficBytes' = params.trafficLimit * unitMultipliers[params.trafficUnit]
                /\ isTesting' = TRUE
                /\ totalDownloaded' = 0
                /\ activeThreads' = <<>>
                /\ startPending' = startPending \cup
                                     {[sess |-> session + 1, threadCount |-> params.threadCount]}
                /\ session' = session + 1
                /\ sessThreads' = params.threadCount
                /\ sessWarn' = 0
                /\ sessSummary' = 0
                /\ last' = StartTag(params)
                /\ UNCHANGED <<threads, updateTimer, tickTimers, audit>>
    /\ calm' = ((isTesting \/ Validated[form] = Null) => Frame' = Frame)
    /\ UNCHANGED <<meterVars, asideVars>>

\* startTest after acquire() has settled: the threads are created and
\* startProgressUpdate runs update() once.
StartResume(p) ==
    /\ NoMicrotask
    /\ p \in startPending
    /\ Room(p.threadCount)
    /\ LET w == SpawnLoop([ths |-> threads, act |-> activeThreads], 0, p.threadCount, p.sess)
       IN  /\ threads' = w.ths
           /\ activeThreads' = w.act
    /\ IF isTesting
       THEN LET k == FreshTimer(tickTimers \cup {updateTimer})
            IN  /\ updateTimer' = k
                /\ tickTimers' = tickTimers \cup {k}
       ELSE UNCHANGED <<updateTimer, tickTimers>>
    /\ startPending' = startPending \ {p}
    /\ last' = Op("startResume")
    /\ UNCHANGED <<isTesting, totalDownloaded, targetTrafficBytes, session, sessThreads, sessWarn, sessSummary, audit, calm>>
    /\ UNCHANGED <<meterVars, asideVars>>

\* update() of startProgressUpdate, run by its timer k.
Tick(k) ==
    /\ NoMicrotask
    /\ k \in tickTimers
    /\ IF ~isTesting
       THEN /\ tickTimers' = tickTimers \ {k}
            /\ UNCHANGED updateTimer
       ELSE /\ updateTimer' = FreshTimer((tickTimers \ {k}) \cup {0})
            /\ tickTimers' = (tickTimers \ {k}) \cup {updateTimer'}
    /\ last' = Op("tick")
    /\ UNCHANGED <<isTesting, totalDownloaded, targetTrafficBytes, activeThreads, threads,
                   startPending, session, sessThreads, sessWarn, sessSummary, audit, calm>>
    /\ UNCHANGED <<meterVars, asideVars>>

\* stopTest called by the stop button.
UserStop ==
    /\ NoMicrotask
    /\ StopTest(threads)
    /\ last' = IF isTesting THEN Op("stopTest") ELSE IF audit THEN "stopWhileIdle" ELSE last
    /\ UNCHANGED <<totalDownloaded, targetTrafficBytes, startPending, session, sessThreads,
                   sessWarn, audit>>
    /\ calm' = (~isTesting => Frame' = Frame)
    /\ UNCHANGED <<meterVars, asideVars>>

\* downloadFile: fetch() resolves with an ok response; readStream is entered.
FetchOk(h) ==
    /\ NoMicrotask
    /\ threads[h].pc = "fetching"
    /\ threads' = [threads EXCEPT ![h].pc =
                      IF LoopCond(isTesting, threads[h].isActive) THEN "reading" ELSE "returned"]
    /\ last' = Op("fetchOk")
    /\ UNCHANGED <<isTesting, totalDownloaded, targetTrafficBytes, activeThreads, updateTimer,
                   tickTimers, startPending, session, sessThreads, sessWarn, sessSummary, audit, calm>>
    /\ UNCHANGED <<meterVars, asideVars>>

\* downloadFile: fetch() rejects with a network error or the response is not
\* ok; or reader.read() rejects with a network error, which readStream rethrows.
WorkerError(h) ==
    /\ NoMicrotask
    /\ \/ threads[h].pc = "fetching"
       \/ threads[h].pc = "reading" /\ Rethrows("TypeError")
    /\ CatchHandler(h, "TypeError")
    /\ last' = Op("workerError")
    /\ UNCHANGED <<meterVars, asideVars>>

\* readStream: reader.read() resolves with a chunk of c bytes.
ReadChunk(h, c) ==
    /\ NoMicrotask
    /\ threads[h].pc = "reading"
    /\ totalDownloaded' = Accumulate(totalDownloaded, c)
    /\ LET ths == [threads EXCEPT ![h].downloaded = @ + c, ![h].pc = "returned"]
       IN  IF BudgetReached(totalDownloaded', targetTrafficBytes)
           THEN StopTest(ths)
           ELSE /\ threads' = [ths EXCEPT ![h].pc =
                                  IF LoopCond(isTesting, ths[h].isActive)
                                  THEN "reading" ELSE "returned"]
                /\ UNCHANGED <<isTesting, updateTimer, tickTimers, activeThreads, sessSummary>>
    /\ last' = Op("readChunk")
    /\ UNCHANGED <<targetTrafficBytes, startPending, session, sessThreads, sessWarn, audit, calm>>
    /\ UNCHANGED <<meterVars, asideVars>>

\* readStream: reader.read() resolves with done; the reconnect timer is set.
ReadDone(h) ==
    /\ NoMicrotask
    /\ threads[h].pc = "reading"
    /\ threads' = [threads EXCEPT ![h].pc = "ended",
                                  ![h].timer = IF isTesting THEN "armed" ELSE "idle"]
    /\ last' = Op("readDone")
    /\ UNCHANGED <<isTesting, totalDownloaded, targetTrafficBytes, activeThreads, updateTimer,
                   tickTimers, startPending, session, sessThreads, sessWarn, sessSummary, audit, calm>>
    /\ UNCHANGED <<meterVars, asideVars>>

\* The reconnect timer of readStream fires.
ReconnectTimer(h) ==
    /\ NoMicrotask
    /\ threads[h].timer \in {"armed", "stale", "idle"}
    /\ isTesting => Room(1)
    /\ LET ths == [threads EXCEPT ![h].timer = "fired"]
           w == IF isTesting
                THEN ReconnectThread([ths |-> ths, act |-> activeThreads], h)
                ELSE [ths |-> ths, act |-> activeThreads]
       IN  /\ threads' = w.ths
           /\ activeThreads' = w.act
    /\ last' = Op("reconnect")
    /\ UNCHANGED <<isTesting, totalDownloaded, targetTrafficBytes, updateTimer, tickTimers,
                   startPending, session, sessThreads, sessWarn, sessSummary, audit, calm>>
    /\ UNCHANGED <<meterVars, asideVars>>

\* The rejection of an aborted fetch() reaches createTestThread's catch
\* handler; the rejection of an aborted read() is swallowed by readStream.
AbortRejected(h) ==
    /\ threads[h].pc \in {"fetchAborted", "readAborted"}
    /\ IF threads[h].pc = "readAborted" /\ ~Rethrows("AbortError")
       THEN /\ threads' = [threads EXCEPT ![h].pc = "returned"]
            /\ UNCHANGED <<isTesting, totalDownloaded, targetTrafficBytes, activeThreads,
                           updateTimer, tickTimers, startPending, session, sessThreads,
                           sessWarn, sessSummary, audit, calm>>
       ELSE CatchHandler(h, "AbortError")
    /\ last' = Op("abortRejected")
    /\ UNCHANGED <<meterVars, asideVars>>

Next ==
    \/ \E form \in StartInputs : StartTest(form)
    \/ \E p \in startPending : StartResume(p)
    \/ \E k \in TimerIds : Tick(k)
    \/ UserStop
    \/ \E h \in Handles : FetchOk(h)
    \/ \E h \in Handles : WorkerError(h)
    \/ \E h \in Handles, c \in Chunks : ReadChunk(h, c)
    \/ \E h \in Handles : ReadDone(h)
    \/ \E h \in Handles : ReconnectTimer(h)
    \/ \E h \in Handles : AbortRejected(h)

Init == Constructed /\ audit = FALSE

Spec == Init /\ [][Next]_vars

\* The same program, with the calls that return early recorded.
InitCalls == Constructed /\ audit = TRUE

SpecCalls == InitCalls /\ [][Next]_vars

(***************************************************************************)
(* The workers served.  SpecServed is Spec with every read that completes  *)
(* delivering a chunk (no stream ends, hence no reconnect), and with each  *)
(* callback that is due run in the end: the continuation of a suspended    *)
(* startTest, the settling of each worker's pending fetch() or read(), the *)
(* rejection handlers of aborted calls, and the tick timers.  The user's   *)
(* clicks are under no such obligation.                                    *)
(***************************************************************************)

\* The startTest calls that can be suspended.
StartCalls == [sess : 1..MaxObj, threadCount : 1..MaxThreads]

\* The pending fetch() or read() of worker h settles.
Settle(h) ==
    \/ FetchOk(h)
    \/ WorkerError(h)
    \/ \E c \in Chunks : ReadChunk(h, c)

NextServed ==
    \/ \E form \in StartInputs : StartTest(form)
    \/ \E p \in startPending : StartResume(p)
    \/ \E k \in TimerIds : Tick(k)
    \/ UserStop
    \/ \E h \in Handles : FetchOk(h)
    \/ \E h \in Handles : WorkerError(h)
    \/ \E h \in Handles, c \in Chunks : ReadChunk(h, c)
    \/ \E h \in Handles : AbortRejected(h)

Served ==
    /\ \A p \in StartCalls : WF_vars(StartResume(p))
    /\ \A h \in Handles : WF_vars(Settle(h))
    /\ \A h \in Handles : WF_vars(AbortRejected(h))
    /\ \A k \in TimerIds : WF_vars(Tick(k))

SpecServed == Init /\ [][NextServed]_vars /\ Served

(***************************************************************************)
(* The meter: the clock, updateProgress, updateProgressUI and the final    *)
(* update of stopTest.  Spec and SpecCalls leave the meter aside (its      *)
(* variables keep the values the constructor gave them); SpecMeter models  *)
(* it and leaves the workers aside: they are the calls of readStream's     *)
(* chunk path, and the tick timers are the calls of update().  Two tick    *)
(* chains can run in one session, so update() is called at any interval.   *)
(* Speeds are in MB/s times SpeedScale, which every interval of the model  *)
(* divides.  The clock does not run backwards.                             *)
(***************************************************************************)

RECURSIVE Factorial(_)
Factorial(n) == IF n <= 1 THEN 1 ELSE n * Factorial(n - 1)

SpeedScale == Factorial(MaxNow)

RECURSIVE Sum(_)
Sum(seq) == IF seq = <<>> THEN 0 ELSE Head(seq) + Sum(Tail(seq))

\* Mutant of CurrentSpeed: an interval of 0 is counted as 1 ms.
CurrentSpeedClamped(downloadedInInterval, interval) ==
    (downloadedInInterval * MsPerSecond * SpeedScale) \div (IF interval > 0 THEN interval ELSE 1)

\* updateProgress: interval > 0 ? (downloadedInInterval / (interval / 1000)) : 0
CurrentSpeed(downloadedInInterval, interval) ==
    IF interval > 0
    THEN (downloadedInInterval * MsPerSecond * SpeedScale) \div interval
    ELSE 0

\* Mutant of OverWindow: the window is never found full.
OverWindowNever(len) == FALSE

\* updateProgress: this.speedHistory.length > this.speedSmoothingWindow
OverWindow(len) == len > speedSmoothingWindow

\* Mutant of Shift: the newest sample is removed.
Pop(hist) == SubSeq(hist, 1, Len(hist) - 1)

\* updateProgress: this.speedHistory.shift()
Shift(hist) == Tail(hist)

\* Mutant of Progress: the progress is not capped.
ProgressNoMin(total, target) == Rat(total * 100, target)

\* updateProgressUI: Math.min(100, (totalDownloaded / targetTrafficBytes) * 100)
Progress(total, target) ==
    LET p == Rat(total * 100, target)
    IN  IF Leq(Rat(100, 1), p) THEN Rat(100, 1) ELSE p

\* updateProgressUI(speed), reading this.totalDownloaded = total.
UpdateProgressUI(speed, total) ==
    /\ speedShown' = speed
    /\ progressShown' = Progress(total, targetTrafficBytes)
    /\ uiUpdates' = uiUpdates + 1

\* updateProgress
UpdateProgress ==
    LET interval == now - lastUpdateTime
        downloadedInInterval == totalDownloaded - lastDownloaded
        currentSpeed == CurrentSpeed(downloadedInInterval, interval)
        pushed == Append(speedHistory, currentSpeed)
        hist == IF OverWindow(Len(pushed)) THEN Shift(pushed) ELSE pushed
        averageSpeed == Rat(Sum(hist), Len(hist))
    IN  /\ speedHistory' = hist
        /\ UpdateProgressUI(averageSpeed, totalDownloaded)
        /\ lastUpdateTime' = now
        /\ lastDownloaded' = totalDownloaded
        /\ rates' = Append(rates, currentSpeed)

\* stopTest, for the meter: the final update and the summary line.
MeterStopTest(total, cause) ==
    IF NotTesting(isTesting)
    THEN UNCHANGED <<isTesting, sessSummary, speedShown, progressShown, uiUpdates, stoppedBy>>
    ELSE /\ isTesting' = FALSE
         /\ UpdateProgressUI(Rat(total * MsPerSecond * SpeedScale, now - startTime), total)
         /\ sessSummary' = sessSummary + 1
         /\ stoppedBy' = cause

\* startTest, for the meter.
MeterStart(form) ==
    /\ session < MaxSessions
    /\ LET params == Validated[form]
       IN  IF AlreadyTesting(isTesting) \/ NoParams(params)
           THEN UNCHANGED vars
           ELSE /\ targetTrafficBytes' = params.trafficLimit * unitMultipliers[params.trafficUnit]
                /\ isTesting' = TRUE
                /\ totalDownloaded' = 0
                /\ lastDownloaded' = 0
                /\ speedHistory' = <<>>
                /\ startTime' = now
                /\ lastUpdateTime' = now
                /\ session' = session + 1
                /\ sessSummary' = 0
                /\ rates' = <<>>
                /\ uiUpdates' = 0
                /\ stoppedBy' = "none"
                /\ last' = "startTest"
                /\ UNCHANGED <<now, progressShown, speedShown>>
                /\ UNCHANGED <<workerVars, asideVars>>

\* update() of startProgressUpdate, for the meter.
MeterTick ==
    /\ session >= 1
    /\ Len(rates) < MaxTicks
    /\ IF ~isTesting
       THEN UNCHANGED vars
       ELSE /\ UpdateProgress
            /\ last' = "tick"
            /\ UNCHANGED <<isTesting, totalDownloaded, targetTrafficBytes, session, sessSummary,
                           now, startTime, stoppedBy>>
            /\ UNCHANGED <<workerVars, asideVars>>

\* readStream's chunk path, for the meter.  A worker that stopTest did not
\* abort delivers its pending chunk while no session runs (the model stops
\* such chunks MaxChunk beyond the target).
MeterChunk(c) ==
    /\ session >= 1
    /\ isTesting \/ totalDownloaded < targetTrafficBytes + MaxChunk
    /\ totalDownloaded' = Accumulate(totalDownloaded, c)
    /\ IF BudgetReached(totalDownloaded', targetTrafficBytes)
       THEN MeterStopTest(totalDownloaded', "budget")
       ELSE UNCHANGED <<isTesting, sessSummary, speedShown, progressShown, uiUpdates, stoppedBy>>
    /\ last' = IF isTesting THEN "readChunk" ELSE "readChunkIdle"
    /\ UNCHANGED <<targetTrafficBytes, session, now, startTime, lastUpdateTime, lastDownloaded,
                   speedHistory, rates>>
    /\ UNCHANGED <<workerVars, asideVars>>

\* stopTest called by the stop button, for the meter.
MeterStop ==
    /\ MeterStopTest(totalDownloaded, "user")
    /\ last' = IF isTesting THEN "stopTest" ELSE last
    /\ UNCHANGED <<totalDownloaded, targetTrafficBytes, session, now, startTime, lastUpdateTime,
                   lastDownloaded, speedHistory, rates>>
    /\ UNCHANGED <<workerVars, asideVars>>

\* Date.now() moves on by one updateInterval.
MeterClock ==
    /\ now < MaxNow * updateInterval
    /\ now' = now + updateInterval
    /\ last' = "clock"
    /\ UNCHANGED <<isTesting, totalDownloaded, targetTrafficBytes, session, sessSummary,
                   startTime, lastUpdateTime, lastDownloaded, speedHistory, progressShown,
                   speedShown, rates, uiUpdates, stoppedBy>>
    /\ UNCHANGED <<workerVars, asideVars>>

NextMeter ==
    \/ \E form \in StartInputs : MeterStart(form)
    \/ MeterTick
    \/ \E c \in Chunks : MeterChunk(c)
    \/ MeterStop
    \/ MeterClock

SpecMeter == Init /\ [][NextMeter]_vars

(***************************************************************************)
(* The meter at a constant rate.  SpecSteady is one session in which the   *)
(* tick timer fires every `every` ms and the workers deliver perTick MB    *)
(* between two firings, in chunks and at any moments of the interval.      *)
(* startTest is suspended at its await for 0 ms or for one updateInterval, *)
(* then creates the workers and calls update() at once: no chunk has       *)
(* arrived by then.  The target (MaxLimit GB) is out of the session's      *)
(* reach, so the session runs for as long as the model follows it.         *)
(***************************************************************************)

SteadyForm == [nodeId |-> "cn1", customUrl |-> <<>>, threadCount |-> Text(1),
               trafficLimit |-> Text(MaxLimit), trafficUnit |-> "GB"]

\* The intervals of the tick timer the model tries.
Intervals == {i * updateInterval : i \in 1..MaxNow}

\* The rate the workers deliver at, in MB/s times SpeedScale.
SteadyRate == (steady.perTick * MsPerSecond * SpeedScale) \div steady.every

\* startTest up to its await.
SteadyStart(perTick, every) ==
    /\ steady.phase = "off"
    /\ LET params == ValidateTestParams(SteadyForm)
       IN  /\ ~AlreadyTesting(isTesting)
           /\ ~NoParams(params)
           /\ targetTrafficBytes' = params.trafficLimit * unitMultipliers[params.trafficUnit]
    /\ isTesting' = TRUE
    /\ totalDownloaded' = 0
    /\ lastDownloaded' = 0
    /\ speedHistory' = <<>>
    /\ startTime' = now
    /\ lastUpdateTime' = now
    /\ session' = session + 1
    /\ sessSummary' = 0
    /\ rates' = <<>>
    /\ uiUpdates' = 0
    /\ stoppedBy' = "none"
    /\ steady' = [phase |-> "await", perTick |-> perTick, every |-> every]
    /\ last' = "startTest"
    /\ UNCHANGED <<now, progressShown, speedShown>>
    /\ UNCHANGED <<workerVars, lockVars, textVars>>

\* The await of startTest takes one updateInterval.
SteadyLatency ==
    /\ steady.phase = "await"
    /\ now = startTime
    /\ now' = now + updateInterval
    /\ last' = "clock"
    /\ UNCHANGED <<isTesting, totalDownloaded, targetTrafficBytes, session, sessSummary,
                   startTime, lastUpdateTime, lastDownloaded, speedHistory, progressShown,
                   speedShown, rates, uiUpdates, stoppedBy>>
    /\ UNCHANGED <<workerVars, asideVars>>

\* startTest after its await: startProgressUpdate calls update().
SteadyFirst ==
    /\ steady.phase = "await"
    /\ isTesting
    /\ UpdateProgress
    /\ steady' = [steady EXCEPT !.phase = "run"]
    /\ last' = "update"
    /\ UNCHANGED <<isTesting, totalDownloaded, targetTrafficBytes, session, sessSummary,
                   now, startTime, stoppedBy>>
    /\ UNCHANGED <<workerVars, lockVars, textVars>>

\* readStream's chunk path: a chunk of the perTick MB of this interval.
SteadyChunk(c) ==
    /\ steady.phase = "run"
    /\ (totalDownloaded - lastDownloaded) + c <= steady.perTick
    /\ totalDownloaded' = Accumulate(totalDownloaded, c)
    /\ ~BudgetReached(totalDownloaded', targetTrafficBytes)
    /\ last' = "readChunk"
    /\ UNCHANGED <<isTesting, targetTrafficBytes, session, sessSummary, now, startTime,
                   lastUpdateTime, lastDownloaded, speedHistory, progressShown, speedShown,
                   rates, uiUpdates, stoppedBy>>
    /\ UNCHANGED <<workerVars, asideVars>>

\* Date.now() moves on to the next firing of the tick timer.
SteadyClock ==
    /\ steady.phase = "run"
    /\ now = lastUpdateTime
    /\ Len(rates) <= MaxTicks
    /\ now' = now + steady.every
    /\ last' = "clock"
    /\ UNCHANGED <<isTesting, totalDownloaded, targetTrafficBytes, session, sessSummary,
                   startTime, lastUpdateTime, lastDownloaded, speedHistory, progressShown,
                   speedShown, rates, uiUpdates, stoppedBy>>
    /\ UNCHANGED <<workerVars, asideVars>>

\* update() called by the tick timer, once the interval's bytes are in.
SteadyTick ==
    /\ steady.phase = "run"
    /\ now = lastUpdateTime + steady.every
    /\ totalDownloaded - lastDownloaded = steady.perTick
    /\ isTesting
    /\ UpdateProgress
    /\ last' = "tick"
    /\ UNCHANGED <<isTesting, totalDownloaded, targetTrafficBytes, session, sessSummary,
                   now, startTime, stoppedBy>>
    /\ UNCHANGED <<workerVars, asideVars>>

NextSteady ==
    \/ \E perTick \in 0..MaxChunk, every \in Intervals : SteadyStart(perTick, every)
    \/ SteadyLatency
    \/ SteadyFirst
    \/ \E c \in Chunks : SteadyChunk(c)
    \/ SteadyClock
    \/ SteadyTick

SpecSteady == Init /\ [][NextSteady]_vars

(***************************************************************************)
(* The texts: the traffic display (formatTrafficDisplay and toFixed(2) in  *)
(* updateProgressUI) and the URL of a worker (createTestThread and         *)
(* reconnectThread).  SpecText applies them to inputs from bounded sets.   *)
(* A byte count is kept as mb * 2^20 + rem, so that counts around 2^30 and *)
(* 2^40 bytes are computed exactly.                                        *)
(***************************************************************************)

\* formatTrafficDisplay: const k = 1024; const sizes = ['MB', 'GB', 'TB']
Kilo == 1024
sizes == <<"MB", "GB", "TB">>

RECURSIVE Power(_, _)
Power(b, e) == IF e = 0 THEN 1 ELSE b * Power(b, e - 1)

\* formatTrafficDisplay: value >= k, for value = bytes / (k * k) / k^i
ValueAtLeastK(bytes, i) == bytes.mb >= Kilo * Power(Kilo, i)

\* formatTrafficDisplay: while (value >= k && i < sizes.length - 1) { value /= k; i++; }
RECURSIVE ScaleLoop(_, _)
ScaleLoop(bytes, i) ==
    IF ValueAtLeastK(bytes, i) /\ i < Len(sizes) - 1 THEN ScaleLoop(bytes, i + 1) ELSE i

\* formatTrafficDisplay(bytes): the value bytes / (k * k) / k^i, kept as bytes
\* and i, and the unit.
FormatTrafficDisplay(bytes) ==
    IF bytes = Bytes(0, 0)
    THEN [bytes |-> bytes, i |-> 0, unit |-> "MB"]
    ELSE LET i == ScaleLoop(bytes, 0)
         IN  [bytes |-> bytes, i |-> i, unit |-> sizes[i + 1]]

\* value.toFixed(2), as the number of hundredths printed: the integer n for
\* which n / 100 is closest to the value, the larger one of two.
ToFixed2(value) ==
    LET d == Power(Kilo, value.i)
    IN  (value.bytes.mb * 200 + ((value.bytes.rem * 200) \div (Kilo * Kilo)) + d) \div (2 * d)

\* updateProgressUI: `${trafficValue.toFixed(2)} ${trafficUnit}`
TrafficText(bytes) ==
    LET shown == FormatTrafficDisplay(bytes)
    IN  [hundredths |-> ToFixed2(shown), unit |-> shown.unit]

\* Byte counts around 0, k MB and k * k MB, and remainders around 0, around
\* the last hundredth of a MB and below a full MB.
MbInputs == {d : d \in 0..MaxNear}
                \cup {Kilo - 1 - d : d \in 0..MaxNear} \cup {Kilo + d : d \in 0..MaxNear}
                \cup {Kilo * Kilo - 1 - d : d \in 0..MaxNear} \cup {Kilo * Kilo + d : d \in 0..MaxNear}
RemInputs == {d : d \in 0..MaxNear}
                 \cup {Kilo * Kilo - 1 - d : d \in 0..MaxNear}
                 \cup {(Kilo * Kilo * 199) \div 200 + d : d \in 0..MaxNear}
TrafficInputs == {Bytes(m, r) : m \in MbInputs, r \in RemInputs}

\* updateProgressUI writes the traffic text for totalDownloaded = bytes.
ShowTraffic(bytes) ==
    /\ trafficBytes' = bytes
    /\ trafficShown' = TrafficText(bytes)
    /\ last' = "showTraffic"
    /\ UNCHANGED <<thread, urlBase, reconnectBase>>
    /\ UNCHANGED <<sessionVars, workerVars, meterVars, lockVars, steady>>

\* Math.random().toString(36).substring(7): digits and lower-case letters,
\* possibly none.
Randoms == {<<>>, <<"x">>, <<"4", "z">>}

\* createTestThread: `${baseUrl}?thread=${threadId}&r=${randomParam}&t=${Date.now()}`
TestUrl(baseUrl, threadId, randomParam, t) ==
    baseUrl \o <<"?", "t", "h", "r", "e", "a", "d", "=">> \o Text(threadId)
            \o <<"&", "r", "=">> \o randomParam \o <<"&", "t", "=">> \o Text(t)

\* reconnectThread: thread.url.split('?')[0], the text before the first '?'.
RECURSIVE Split0(_)
Split0(url) ==
    IF url = <<>> \/ Head(url) = "?" THEN <<>> ELSE <<Head(url)>> \o Split0(Tail(url))

\* The base URLs validateTestParams accepts: the preset nodes' and the custom
\* URLs that match the pattern.
BaseUrls == {testNodes[n] : n \in {"cn1", "cn2", "us1"}}
                \cup {Trim(u) : u \in {v \in UrlTexts : Trim(v) # <<>> /\ UrlPattern(Trim(v))}}

\* createTestThread(threadId, baseUrl), as startTest calls it.
CreateUrl(baseUrl, threadId, randomParam, t) ==
    /\ thread' = [id |-> threadId, url |-> TestUrl(baseUrl, threadId, randomParam, t)]
    /\ urlBase' = baseUrl
    /\ reconnectBase' = <<>>
    /\ last' = "createUrl"
    /\ UNCHANGED <<trafficBytes, trafficShown>>
    /\ UNCHANGED <<sessionVars, workerVars, meterVars, lockVars, steady>>

\* reconnectThread(thread): the base URL is derived from thread.url and the
\* thread is created again.
ReconnectUrl(randomParam, t) ==
    /\ thread.url # <<>>
    /\ reconnectBase' = Split0(thread.url)
    /\ thread' = [id |-> thread.id, url |-> TestUrl(reconnectBase', thread.id, randomParam, t)]
    /\ last' = "reconnectUrl"
    /\ UNCHANGED <<trafficBytes, trafficShown, urlBase>>
    /\ UNCHANGED <<sessionVars, workerVars, meterVars, lockVars, steady>>

NextText ==
    \/ \E bytes \in TrafficInputs : ShowTraffic(bytes)
    \/ \E baseUrl \in BaseUrls, threadId \in 0..(MaxThreads - 1), randomParam \in Randoms,
          t \in 0..MaxNow : CreateUrl(baseUrl, threadId, randomParam, t)
    \/ \E randomParam \in Randoms, t \in 0..MaxNow : ReconnectUrl(randomParam, t)

SpecText == Init /\ [][NextText]_vars

(***************************************************************************)
(* The wake-lock manager (ScreenWakeLock).  SpecLock models it alone, in a *)
(* browser that supports the Wake Lock API: its callers (acquire() and     *)
(* release() are what startTest and stopTest call), the browser settling   *)
(* a request, the system releasing a sentinel, and the manager's timers    *)
(* and event handlers.  A call runs up to navigator.wakeLock.request() in  *)
(* one step: sentinel.release() fires the sentinel's release event before  *)
(* the awaiting code continues.  A request granted while this.wakeLock     *)
(* refers to a sentinel leaves that sentinel held and unreferenced, its    *)
(* release listener still attached.                                        *)
(***************************************************************************)

isSupported == TRUE
backgroundSupport == TRUE
maxRetries == 3

Pending == requests["call"] + requests["auto"]

\* Mutant of MayRetry: handleWakeLockRelease retries without limit.
MayRetryAlways(count) == TRUE

\* handleWakeLockRelease: if (this.retryCount < this.maxRetries)
MayRetry(count) == count < maxRetries

\* The release listener of a sentinel, run while isActive is `active`: 1 when
\* handleWakeLockRelease sets a retry timer, and 1 when it reports 'failed'.
Armed(active) == IF active /\ MayRetry(retryCount) THEN 1 ELSE 0
Failed(active) == IF active /\ ~MayRetry(retryCount) THEN 1 ELSE 0

\* handleWakeLockRelease, called `released` times (0 or 1) by the listener.
HandleWakeLockRelease(released, fired) ==
    /\ retryCount' = retryCount + released * Armed(isActive)
    /\ retryArmed' = retryArmed + released * Armed(isActive)
    /\ retryTimers' = (retryTimers - fired) + released * Armed(isActive)
    /\ gaveUp' = gaveUp + released * Failed(isActive)

\* acquireWakeLock up to its await of request(), `fired` retry timers having
\* run: a sentinel in this.wakeLock is released first (releaseWakeLock).
AcquireWakeLock(caller, fired) ==
    /\ isSupported
    /\ Pending < MaxRequests
    /\ HandleWakeLockRelease(IF wakeLock THEN 1 ELSE 0, fired)
    /\ wakeLock' = FALSE
    /\ isActive' = IF wakeLock THEN FALSE ELSE isActive
    /\ requests' = [requests EXCEPT ![caller] = @ + 1]
    /\ attempts' = IF caller = "auto" /\ attempts <= maxRetries THEN attempts + 1 ELSE attempts

\* releaseWakeLock
ReleaseWakeLock ==
    /\ HandleWakeLockRelease(IF wakeLock THEN 1 ELSE 0, 0)
    /\ wakeLock' = FALSE
    /\ isActive' = IF wakeLock THEN FALSE ELSE isActive

\* acquire()
Acquire ==
    /\ AcquireWakeLock("call", 0)
    /\ quiet' = FALSE
    /\ UNCHANGED <<heartbeatTimer, orphans, grants>>
    /\ UNCHANGED <<sessionVars, workerVars, meterVars, textVars, steady, last>>

\* activate()
Activate ==
    /\ IF isActive
       THEN UNCHANGED <<wakeLock, isActive, retryCount, retryTimers, requests, attempts,
                        retryArmed, gaveUp>>
       ELSE AcquireWakeLock("call", 0)
    /\ quiet' = FALSE
    /\ UNCHANGED <<heartbeatTimer, orphans, grants>>
    /\ UNCHANGED <<sessionVars, workerVars, meterVars, textVars, steady, last>>

\* release()
Release ==
    /\ ReleaseWakeLock
    /\ quiet' = (Pending = 0 /\ orphans = 0)
    /\ UNCHANGED <<heartbeatTimer, requests, orphans, attempts, grants>>
    /\ UNCHANGED <<sessionVars, workerVars, meterVars, textVars, steady, last>>

\* deactivate(): isActive is false by the time the sentinel's listener runs.
Deactivate ==
    /\ isActive' = FALSE
    /\ heartbeatTimer' = FALSE
    /\ wakeLock' = FALSE
    /\ quiet' = (Pending = 0 /\ orphans = 0)
    /\ UNCHANGED <<retryCount, retryTimers, requests, orphans, attempts, retryArmed, gaveUp,
                   grants>>
    /\ UNCHANGED <<sessionVars, workerVars, meterVars, textVars, steady, last>>

\* navigator.wakeLock.request() resolves: acquireWakeLock goes on.
RequestGranted(caller) ==
    /\ requests[caller] > 0
    /\ grants < MaxGrants
    /\ requests' = [requests EXCEPT ![caller] = @ - 1]
    /\ orphans' = orphans + (IF wakeLock THEN 1 ELSE 0)
    /\ wakeLock' = TRUE
    /\ isActive' = TRUE
    /\ retryCount' = 0
    /\ heartbeatTimer' = TRUE
    /\ attempts' = 0
    /\ retryArmed' = 0
    /\ gaveUp' = 0
    /\ grants' = grants + 1
    /\ UNCHANGED <<retryTimers, quiet>>
    /\ UNCHANGED <<sessionVars, workerVars, meterVars, textVars, steady, last>>

\* navigator.wakeLock.request() rejects: handleWakeLockError.
RequestRejected(caller) ==
    /\ requests[caller] > 0
    /\ requests' = [requests EXCEPT ![caller] = @ - 1]
    /\ UNCHANGED <<wakeLock, isActive, retryCount, heartbeatTimer, retryTimers, orphans,
                   attempts, retryArmed, gaveUp, grants, quiet>>
    /\ UNCHANGED <<sessionVars, workerVars, meterVars, textVars, steady, last>>

\* The system releases the sentinel this.wakeLock refers to: its listener.
SentinelReleased ==
    /\ wakeLock
    /\ wakeLock' = FALSE
    /\ HandleWakeLockRelease(1, 0)
    /\ UNCHANGED <<isActive, heartbeatTimer, requests, orphans, attempts, grants, quiet>>
    /\ UNCHANGED <<sessionVars, workerVars, meterVars, textVars, steady, last>>

\* The system releases an unreferenced sentinel: its listener sets
\* this.wakeLock to null all the same.
OrphanReleased ==
    /\ orphans > 0
    /\ wakeLock' = FALSE
    /\ orphans' = (orphans - 1) + (IF wakeLock THEN 1 ELSE 0)
    /\ HandleWakeLockRelease(1, 0)
    /\ UNCHANGED <<isActive, heartbeatTimer, requests, attempts, grants, quiet>>
    /\ UNCHANGED <<sessionVars, workerVars, meterVars, textVars, steady, last>>

\* A handler's `if (this.isActive && !this.wakeLock) this.acquireWakeLock()`.
Reacquire ==
    IF isActive /\ ~wakeLock
    THEN AcquireWakeLock("auto", 0)
    ELSE UNCHANGED <<wakeLock, isActive, retryCount, retryTimers, requests, attempts,
                     retryArmed, gaveUp>>

\* The timer handleWakeLockRelease set.
RetryTimer ==
    /\ retryTimers > 0
    /\ IF isActive
       THEN AcquireWakeLock("auto", 1)
       ELSE /\ retryTimers' = retryTimers - 1
            /\ UNCHANGED <<wakeLock, isActive, retryCount, requests, attempts, retryArmed,
                           gaveUp>>
    /\ UNCHANGED <<heartbeatTimer, orphans, grants, quiet>>
    /\ UNCHANGED <<sessionVars, workerVars, meterVars, textVars, steady, last>>

\* The heartbeat interval: stopHeartbeat, or performHeartbeat with
\* navigator.onLine = isOnline.
Heartbeat(isOnline) ==
    /\ heartbeatTimer
    /\ IF ~isActive
       THEN /\ heartbeatTimer' = FALSE
            /\ UNCHANGED <<wakeLock, isActive, retryCount, retryTimers, requests, attempts,
                           retryArmed, gaveUp>>
       ELSE /\ heartbeatTimer' = heartbeatTimer
            /\ IF isOnline
               THEN Reacquire
               ELSE UNCHANGED <<wakeLock, isActive, retryCount, retryTimers, requests,
                                attempts, retryArmed, gaveUp>>
    /\ UNCHANGED <<orphans, grants, quiet>>
    /\ UNCHANGED <<sessionVars, workerVars, meterVars, textVars, steady, last>>

\* The visibilitychange listener, with document.hidden = hidden.
VisibilityChange(hidden) ==
    /\ Reacquire
    /\ heartbeatTimer' = ((~hidden /\ isActive) \/ (hidden /\ isActive /\ backgroundSupport))
    /\ UNCHANGED <<orphans, grants, quiet>>
    /\ UNCHANGED <<sessionVars, workerVars, meterVars, textVars, steady, last>>

\* The focus listener.
Focus ==
    /\ Reacquire
    /\ UNCHANGED <<heartbeatTimer, orphans, grants, quiet>>
    /\ UNCHANGED <<sessionVars, workerVars, meterVars, textVars, steady, last>>

\* The online listener.
Online ==
    /\ Reacquire
    /\ UNCHANGED <<heartbeatTimer, orphans, grants, quiet>>
    /\ UNCHANGED <<sessionVars, workerVars, meterVars, textVars, steady, last>>

\* The offline listener.
Offline ==
    /\ heartbeatTimer' = (heartbeatTimer \/ (isActive /\ backgroundSupport))
    /\ UNCHANGED <<wakeLock, isActive, retryCount, retryTimers, requests, orphans, attempts,
                   retryArmed, gaveUp, grants, quiet>>
    /\ UNCHANGED <<sessionVars, workerVars, meterVars, textVars, steady, last>>

NextLock ==
    \/ Acquire
    \/ Activate
    \/ Release
    \/ Deactivate
    \/ \E caller \in Callers : RequestGranted(caller)
    \/ \E caller \in Callers : RequestRejected(caller)
    \/ SentinelReleased
    \/ OrphanReleased
    \/ RetryTimer
    \/ \E isOnline \in BOOLEAN : Heartbeat(isOnline)
    \/ \E hidden \in BOOLEAN : VisibilityChange(hidden)
    \/ Focus
    \/ Online
    \/ Offline

SpecLock == Init /\ [][NextLock]_vars

(***************************************************************************)
(* Claims                                                                  *)
(***************************************************************************)

\* A connection that is connecting or reading (abort ends both).
Live(h) == threads[h].pc \in {"fetching", "reading"}

\* A connection that was opened and neither ended, failed nor was aborted.
OpenConn(h) == Live(h) \/ (threads[h].pc = "returned" /\ ~threads[h].aborted)

\* The step in which the catch handler runs for a non-abort error of thread h.
Fails(h) == threads[h].pc # "failed" /\ threads'[h].pc = "failed"

\* C1: while a session is running totalDownloaded < targetTrafficBytes, and
\* the step whose chunk makes totalDownloaded >= targetTrafficBytes stops the
\* session: isTesting becomes false, every worker in activeThreads is
\* aborted and the timer of this.updateTimer is cleared.
C1_BudgetStopsInSameStep ==
    /\ [](isTesting => totalDownloaded < targetTrafficBytes)
    /\ [][(isTesting /\ totalDownloaded' # totalDownloaded
                     /\ totalDownloaded' >= targetTrafficBytes)
          => /\ ~isTesting'
             /\ \A h \in Range(activeThreads) : threads'[h].aborted
             /\ updateTimer' = 0
             /\ updateTimer \notin tickTimers']_vars

\* C1 witness: a chunk reached the target, the session stopped in that step
\* and the pending read of another worker was aborted by it.
C1_Witness ==
    /\ last = "readChunk"
    /\ ~isTesting
    /\ totalDownloaded >= targetTrafficBytes
    /\ updateTimer = 0
    /\ \E h \in Handles : threads[h].pc = "readAborted"

\* C2: once stopTest has run (the session is Idle), no worker increases
\* totalDownloaded or its own downloaded counter.
C2_NoBytesAfterStop ==
    [][(~isTesting /\ ~isTesting')
       => /\ totalDownloaded' = totalDownloaded
          /\ \A h \in Handles : threads'[h].downloaded = threads[h].downloaded]_vars

\* C3: a reconnect timer that was pending when stopTest ran creates no
\* worker when it fires, whatever happened after the stop.
C3_LateStopSuppressesReconnect ==
    [][\A h \in Handles :
          (threads[h].timer = "stale" /\ threads'[h].timer = "fired")
          => Allocated(threads') = Allocated(threads)]_vars

C5_IdleHasNoWorkers ==
    ~isTesting => (activeThreads = <<>> /\ \A h \in Handles : ~OpenConn(h))

\* C6: at most one live connection per worker id.
C6_OneLiveConnectionPerId ==
    \A g, h \in Handles : (Live(g) /\ Live(h) /\ threads[g].id = threads[h].id) => g = h

\* C7: while a session is running and its startTest has created its workers,
\* activeThreads holds exactly threadCount entries, with pairwise distinct
\* ids in 0..threadCount-1.
C7_ThreadCountEntries ==
    (isTesting /\ \A p \in startPending : p.sess # session)
    => /\ Len(activeThreads) = sessThreads
       /\ \A i \in 1..Len(activeThreads) : threads[activeThreads[i]].id \in 0..(sessThreads - 1)
       /\ \A i, j \in 1..Len(activeThreads) :
              threads[activeThreads[i]].id = threads[activeThreads[j]].id => i = j

\* C8: when the last of the session's workers (the entries of activeThreads)
\* fails with a non-abort error while the session is running, the session
\* stops in that step and the all-threads-interrupted warning is logged then,
\* once; no session logs it twice.
C8_AllFailedStopsOnce ==
    /\ [](sessWarn <= 1)
    /\ [][\A h \in Handles :
             (/\ isTesting
              /\ h \in Range(activeThreads)
              /\ Fails(h)
              /\ \A x \in Range(activeThreads) \ {h} : threads[x].pc = "failed")
             => (~isTesting' /\ sessWarn = 0 /\ sessWarn' = 1)]_vars

\* C8 witness: both workers of a session of two failed and the session
\* stopped with one warning.
C8_Witness ==
    /\ last = "workerError"
    /\ ~isTesting
    /\ sessWarn = 1
    /\ sessThreads = 2
    /\ Cardinality({h \in Handles : /\ threads[h].sess = session
                                    /\ threads[h].pc = "failed"
                                    /\ threads[h].failedRunning
                                    /\ threads[h].errLogged = 1}) = 2

\* C9: a non-abort error of a worker, while another worker in activeThreads
\* is active, marks only that worker inactive and logs one error line for
\* it; isTesting, totalDownloaded, activeThreads and the other workers are
\* unchanged.
C9_OneFailureKeepsSession ==
    [][\A h \in Handles :
          (Fails(h) /\ \E x \in Range(activeThreads) \ {h} : threads[x].isActive)
          => /\ isTesting' = isTesting
             /\ totalDownloaded' = totalDownloaded
             /\ activeThreads' = activeThreads
             /\ ~threads'[h].isActive
             /\ threads'[h].errLogged = threads[h].errLogged + 1
             /\ threads'[h].downloaded = threads[h].downloaded
             /\ \A x \in Handles \ {h} : threads'[x] = threads[x]]_vars

\* C9 witness: one worker of a running session has failed and another one is
\* still active.
C9_Witness ==
    /\ last = "workerError"
    /\ isTesting
    /\ \E h, x \in Range(activeThreads) :
          /\ threads[h].pc = "failed"
          /\ threads[h].errLogged = 1
          /\ ~threads[h].isActive
          /\ threads[x].isActive

\* C10: no error line is logged for a worker that stopTest has aborted: the
\* AbortError of its fetch() or read() is not logged.
C10_AbortLogsNoError ==
    [][\A h \in Handles :
          threads[h].aborted => threads'[h].errLogged = threads[h].errLogged]_vars

\* C10 witness: stopTest aborted a pending fetch and a pending read in the
\* first session, before the target was reached; both rejections have been
\* handled and neither worker has an error line.
C10_Witness ==
    /\ last = "abortRejected"
    /\ session = 1
    /\ totalDownloaded < targetTrafficBytes
    /\ \E g, h \in Handles :
          /\ threads[g].pc = "done" /\ threads[g].aborted /\ threads[g].errLogged = 0
          /\ threads[h].pc = "returned" /\ threads[h].aborted /\ threads[h].errLogged = 0

\* C11: each session is stopped exactly once.  A running session has logged
\* no final summary line; once it is Idle it has logged exactly one and the
\* timer of this.updateTimer is cleared, whichever of the user, the budget
\* and the failure of all workers stopped it; a click on stop while Idle
\* changes nothing and logs no summary.
C11_StoppedExactlyOnce ==
    /\ sessSummary <= 1
    /\ isTesting => sessSummary = 0
    /\ (~isTesting /\ session >= 1) => (sessSummary = 1 /\ updateTimer = 0)
    /\ last = "stopWhileIdle" => (calm /\ ~isTesting)

\* C11 witness: a session was stopped when its budget was reached, and the
\* stop button was clicked afterwards.
C11_Witness ==
    /\ last = "stopWhileIdle"
    /\ calm
    /\ sessSummary = 1
    /\ totalDownloaded >= targetTrafficBytes
    /\ targetTrafficBytes > 0
    /\ \A h \in Handles : threads[h].pc # "none" => threads[h].aborted

C13_Listed(form) ==
    LET u == Trim(form.customUrl)
        scheme == IF Len(u) >= Len(Https) /\ SubSeq(u, 1, Len(Https)) = Https THEN Len(Https)
                  ELSE IF Len(u) >= Len(Http) /\ SubSeq(u, 1, Len(Http)) = Http THEN Len(Http)
                  ELSE 0
    IN  \/ form.nodeId = ""
        \/ /\ form.nodeId = "custom"
           /\ \/ u = <<>>
              \/ scheme = 0
              \/ Len(u) = scheme
        \/ IsNaN(ParseInt(form.threadCount))
        \/ ParseInt(form.threadCount).val \notin 1..MaxThreadCount
        \/ IsNaN(ParseFloat(form.trafficLimit))
        \/ ParseFloat(form.trafficLimit).val <= 0

\* validateTestParams returns null for every listed form.
C13_ListedFormsRejected ==
    \A form \in Forms : C13_Listed(form) => ValidateTestParams(form) = Null

\* C13: validateTestParams rejects every listed form, and a startTest call
\* whose form is rejected changes no session state: isTesting stays false,
\* totalDownloaded, targetTrafficBytes, activeThreads and the tick timer are
\* unchanged and no worker is created.
C13_RejectedStartChangesNothing ==
    /\ C13_ListedFormsRejected
    /\ last = "startRejected" => (calm /\ ~isTesting)

\* C13 witness: a rejected startTest call after a session that counted
\* bytes.
C13_Witness ==
    /\ last = "startRejected"
    /\ calm
    /\ ~isTesting
    /\ session >= 1
    /\ totalDownloaded > 0
    /\ \E form \in StartInputs : C13_Listed(form)

\* C14: the latency of screenWakeLock.acquire() does not change what a start
\* does.  A run in which acquire() settles at once creates the workers in the
\* state startTest left: the session that start began is the current one and
\* is running.  So in every run, when acquire() settles for a start, that
\* start's session is still current and running.
C14_AcquireLatencyChangesNothing ==
    [][\A p \in startPending :
          (startPending' = startPending \ {p}) => (isTesting /\ session = p.sess)]_vars

\* C15: in the step in which a chunk stops the session, the target is
\* reached and totalDownloaded - targetTrafficBytes is less than the size of
\* that chunk.
C15_OvershootBelowOneChunk ==
    [][\A h \in Handles :
          (isTesting /\ ~isTesting' /\ threads'[h].downloaded > threads[h].downloaded)
          => /\ totalDownloaded' >= targetTrafficBytes
             /\ totalDownloaded' - targetTrafficBytes
                    < threads'[h].downloaded - threads[h].downloaded]_vars

\* C15 witness: the chunk that stopped the session took totalDownloaded
\* beyond the target (every worker is aborted, so the stop is this step's).
C15_Witness ==
    /\ last = "readChunk"
    /\ ~isTesting
    /\ sessSummary = 1
    /\ totalDownloaded > targetTrafficBytes
    /\ \A h \in Handles : threads[h].pc # "none" => threads[h].aborted

RECURSIVE SumDownloaded(_)
SumDownloaded(S) ==
    IF S = {} THEN 0
    ELSE LET h == CHOOSE x \in S : TRUE IN threads[h].downloaded + SumDownloaded(S \ {h})

\* The workers of the running session: created by its startTest or by a
\* reconnect of one of them, or held in activeThreads (startTest empties
\* activeThreads, so every entry was created after the session began).
SessionWorkers ==
    {h \in Handles : threads[h].pc # "none" /\ threads[h].sess = session}
        \cup Range(activeThreads)

\* C16: within a session totalDownloaded equals the sum of the chunks its
\* workers have received, never decreases, and changes only by the size of a
\* chunk a worker receives.
C16_TotalIsSumOfSessionChunks ==
    /\ [](isTesting => totalDownloaded = SumDownloaded(SessionWorkers))
    /\ [][(isTesting /\ session' = session) => totalDownloaded' >= totalDownloaded]_vars
    /\ [][(totalDownloaded' # totalDownloaded /\ session' = session)
          => \E h \in Handles :
                 threads'[h].downloaded - threads[h].downloaded
                     = totalDownloaded' - totalDownloaded]_vars

\* C17: the progress written by updateProgressUI never exceeds 100, and each
\* update of a session (a tick or the final update of stopTest) writes a
\* progress that is at least the one written by the update before it.
C17_ProgressMonotoneCapped ==
    /\ [](uiUpdates >= 1 => Leq(progressShown, Rat(100, 1)))
    /\ [][(uiUpdates' > uiUpdates /\ uiUpdates >= 1)
          => Leq(progressShown, progressShown')]_vars

\* C17 witness: a tick wrote a progress between 0 and 100, and the final
\* update of a session that overshot its target wrote 100.
C17_Witness ==
    /\ ~isTesting
    /\ stoppedBy = "budget"
    /\ uiUpdates >= 2
    /\ lastDownloaded > 0
    /\ lastDownloaded < targetTrafficBytes
    /\ totalDownloaded > targetTrafficBytes
    /\ progressShown = Rat(100, 1)

\* C18: a running session has received less than its target; the chunk that
\* makes the total reach the target leaves the session Idle, stopped by
\* readStream's budget check and not by the user; and from then on, until
\* the next session, the progress written last is exactly 100.
C18_TargetDeliveredEndsAtHundred ==
    /\ isTesting => totalDownloaded < targetTrafficBytes
    /\ (last = "readChunk" /\ totalDownloaded >= targetTrafficBytes)
           => (~isTesting /\ stoppedBy = "budget")
    /\ (~isTesting /\ stoppedBy = "budget")
           => (totalDownloaded >= targetTrafficBytes /\ progressShown = Rat(100, 1))

\* C18 witness: the chunks added up to exactly the target after a tick had
\* written a lower progress.
C18_Witness ==
    /\ last = "readChunk"
    /\ session >= 1
    /\ totalDownloaded = targetTrafficBytes
    /\ ~isTesting
    /\ stoppedBy = "budget"
    /\ uiUpdates >= 2
    /\ lastDownloaded > 0
    /\ progressShown = Rat(100, 1)

\* C19: speedHistory never holds more than speedSmoothingWindow = 10
\* samples, and startTest leaves it empty.
C19_WindowBounded ==
    /\ Len(speedHistory) <= speedSmoothingWindow
    /\ last = "startTest" => speedHistory = <<>>

\* C19 witness: a tick after the window was full.
C19_Witness ==
    /\ last = "tick"
    /\ Len(rates) > speedSmoothingWindow
    /\ Len(speedHistory) = speedSmoothingWindow

\* The n most recent instantaneous rates of the session, in arrival order.
Recent(n) == SubSeq(rates, Len(rates) - n + 1, Len(rates))

\* C20: speedHistory holds the most recent min(k, 10) instantaneous rates
\* of the session in arrival order, k being the number of its ticks, and
\* the rate a tick reports is their arithmetic mean.
C20_MeanOfMostRecent ==
    LET k == Len(rates)
        n == IF k < speedSmoothingWindow THEN k ELSE speedSmoothingWindow
    IN  /\ speedHistory = Recent(n)
        /\ last = "tick" => (k >= 1 /\ speedShown = Rat(Sum(Recent(n)), n))

\* C20 witness: the oldest sample, the only one that was not 0, has been
\* evicted by the 11th tick and the reported mean is 0.
C20_Witness ==
    /\ last = "tick"
    /\ Len(rates) > speedSmoothingWindow
    /\ rates[1] > 0
    /\ speedShown = Rat(0, speedSmoothingWindow)

\* C24: checkAllThreadsCompleted stops a running session only in a step
\* after which a worker of that session has failed and every worker of that
\* session is inactive.  (The workers of the session: see SessionWorkers.)
C24_StoppedOnlyByOwnWorkers ==
    [][(isTesting /\ ~isTesting' /\ sessWarn' > sessWarn)
          => /\ \E h \in SessionWorkers : threads'[h].pc = "failed"
             /\ \A h \in SessionWorkers : ~threads'[h].isActive]_vars

\* C27: while a session runs, at most one update() timer is pending: one
\* chain of startProgressUpdate reschedules itself.
C27_OneTickChain ==
    isTesting => Cardinality(tickTimers) <= 1

\* C29: a tick whose elapsed time since the previous sample is 0 pushes the
\* instantaneous rate 0 on the window, and sets lastUpdateTime and
\* lastDownloaded as every tick does.
C29_ZeroIntervalTickCountsZero ==
    [][(Len(rates') = Len(rates) + 1 /\ now = lastUpdateTime)
          => /\ rates' = Append(rates, 0)
             /\ speedHistory'[Len(speedHistory')] = 0
             /\ lastUpdateTime' = now
             /\ lastDownloaded' = totalDownloaded]_vars

\* C29 witness: the clock has not moved since the session started, bytes
\* arrived, and the second or a later tick recorded them with a rate of 0.
C29_Witness ==
    /\ last = "tick"
    /\ now = startTime
    /\ lastUpdateTime = now
    /\ Len(rates) >= 2
    /\ rates[Len(rates)] = 0
    /\ lastDownloaded > 0
    /\ lastDownloaded = totalDownloaded

\* C30: the speed stopTest's final update writes is totalDownloaded over the
\* elapsed seconds, and 0 when no time has elapsed since the start: no
\* quotient with a zero divisor is written.  (Checked in the state stopTest
\* leaves: the step was the stop button's or the chunk's that stopped.)
C30_FinalSpeedIsMeanOrZero ==
    (~isTesting /\ last \in {"stopTest", "readChunk"})
        => /\ speedShown.den # 0
           /\ speedShown = IF now > startTime
                           THEN Rat(totalDownloaded * MsPerSecond * SpeedScale, now - startTime)
                           ELSE Rat(0, 1)

\* C22: the magnitude the traffic display prints with 2 decimals is below
\* 1024 unless the unit is TB, the unit is MB below 1024 MB, GB from 1024 MB
\* and TB from 1024 GB, and 2^20 bytes print as 1.00 MB, 2^30 as 1.00 GB.
C22_ShownMagnitudeBelowK ==
    last = "showTraffic"
        => /\ trafficShown.unit # "TB" => trafficShown.hundredths < Kilo * 100
           /\ trafficShown.unit = "MB" <=> trafficBytes.mb < Kilo
           /\ trafficShown.unit = "GB" <=> (trafficBytes.mb >= Kilo /\ trafficBytes.mb < Kilo * Kilo)
           /\ trafficShown.unit = "TB" <=> trafficBytes.mb >= Kilo * Kilo
           /\ trafficBytes = Bytes(1, 0) => trafficShown = [hundredths |-> 100, unit |-> "MB"]
           /\ trafficBytes = Bytes(Kilo, 0) => trafficShown = [hundredths |-> 100, unit |-> "GB"]

\* C25: the base URL reconnectThread derives from the worker's URL is the
\* base URL the worker was first created with.
C25_ReconnectKeepsBaseUrl ==
    last = "reconnectUrl" => reconnectBase = urlBase


C26_QuietAfterRelease ==
    quiet => (~isActive /\ ~wakeLock /\ orphans = 0 /\ Pending = 0)


\* C28: when every read that completes delivers a chunk and every callback
\* that is due is run in the end, a running session returns to Idle.
C28_RunningLeadsToIdle == isTesting ~> ~isTesting

C28_Witness ==
    /\ ~isTesting
    /\ session >= 1
    /\ sessSummary = 1
    /\ last = "readChunk"
    /\ BudgetReached(totalDownloaded, targetTrafficBytes)
    /\ \E h \in SessionWorkers : threads[h].downloaded > 0


\* C31: the manager holds at most one sentinel that has not been released: a
\* sentinel newly obtained never replaces in this.wakeLock one that is still
\* held.
C31_AtMostOneSentinel == (IF wakeLock THEN 1 ELSE 0) + orphans <= 1

\* C32: retryCount is between 0 and maxRetries in every reachable state, and
\* it is 0 right after every successful acquisition.
C32_RetryCountInRange ==
    /\ [](retryCount \in 0..maxRetries)
    /\ [][grants' = grants + 1 => retryCount' = 0]_vars

C32_Witness ==
    /\ wakeLock
    /\ isActive
    /\ retryCount = 0
    /\ retryTimers = maxRetries
    /\ grants > 1

====
